---- MODULE Spec2Model ----
(***************************************************************************)
(* Model of the tonpere advent calendar:                                   *)
(*   - scripts/generate-calendar.js : the allocator (buildPools, shuffle,  *)
(*     generateCalendar, getNextSubmitter) and main(), which persists       *)
(*     data/calendar.json;                                                  *)
(*   - server.js : GET /api/calendar, the date gate over calendar.json.     *)
(*                                                                         *)
(* In the allocator a JavaScript string is a sequence of tokens: the token *)
(* " " is a run of whitespace, any other token is text without whitespace  *)
(* at its ends, so that trim() is computed. The server never trims, and    *)
(* its strings are plain.                                                  *)
(***************************************************************************)
EXTENDS Integers, Sequences, FiniteSets, TLC

\* ------------------------------------------------------------- bounds
MaxSubs == 4          \* submissions in submissions.json
MaxDays == 2          \* largest --days= value tried
MaxLinks == 4         \* longest per-submitter list of the balance inputs
MaxBalanceDays == 3   \* largest --days= value of the balance inputs
MaxDayKey == 3        \* largest day key of a hand-made calendar.json
MaxToday == 4         \* largest day-of-month the clock is read at
MaxPhones == 2        \* lines of data/phone-numbers.txt

\* ------------------------------------------------------------- program constants
LINKS_PER_DAY == 3
DEFAULT_DAYS == 24
NUM_BANGERS == 15
TargetMonthOctober == 9   \* faulty variant: the value of the earlier variant of the server
targetMonth == 11
DefaultMaxDay == 24
CronHour == 10

VARIABLES
    \* inputs of one run of generate-calendar.js
    submissions,      \* parsed data/submissions.json: [isArray, items]
    cliDays,          \* parseInt of --days=, {} when NaN
    envDays,          \* parseInt of DAYS, {} when NaN
    placeholderFlag,  \* --placeholders / PLACEHOLDERS=true
    \* the run
    pc,               \* "start", "alloc", "write", "done", "failed"
    error,            \* message of the thrown Error, "" when none
    submitters,       \* Array.from(pool.keys()), insertion order
    pool,             \* submitter -> queue of links
    usedCount,        \* submitter -> links assigned so far
    calendar,         \* day -> list of {url, submitterName}
    day,              \* loop variable of generateCalendar
    dayAssignments,   \* slots of the day being filled
    chosenSubmitters, \* submitters already used that day
    calendarFile,     \* data/calendar.json: [exists, data]
    threeLive,        \* history: at least 3 submitters had a non-empty queue at every getNextSubmitter call
    allLive,          \* history: every submitter had a non-empty queue at every getNextSubmitter call
    \* the server
    calendarData,     \* data/calendar.json as the server finds it: [exists, valid, data]
    currentMonth,     \* now.getMonth() of the last request
    today,            \* now.getDate() of the last request
    response,         \* last response of GET /api/calendar: [status, body]
    \* the daily SMS job
    smsLog,           \* data/sms-sent-log.json: list of dates
    twilioConfigured, \* the three TWILIO_ variables are set
    phoneNumbers,     \* lines of data/phone-numbers.txt
    startHour,        \* now.getHours() when the server starts
    run,              \* invocation of sendDailySms -> [pc, sawSent, index, results, outcome]
    delivered         \* phone number -> messages Twilio accepted for it

genVars == <<submissions, cliDays, envDays, placeholderFlag, pc, error, submitters,
             pool, usedCount, calendar, day, dayAssignments, chosenSubmitters,
             calendarFile, threeLive, allLive>>
srvVars == <<calendarData, currentMonth, today, response>>
smsVars == <<smsLog, twilioConfigured, phoneNumbers, startHour, run, delivered>>
vars == <<genVars, srvVars, smsVars>>

\* ------------------------------------------------------------- strings
WS == " "

RECURSIVE TrimStart(_)
TrimStart(s) == IF s # <<>> /\ Head(s) = WS THEN TrimStart(Tail(s)) ELSE s

RECURSIVE TrimEnd(_)
TrimEnd(s) == IF s # <<>> /\ s[Len(s)] = WS THEN TrimEnd(SubSeq(s, 1, Len(s) - 1)) ELSE s

\* String.prototype.trim
Trim(s) == TrimEnd(TrimStart(s))

Range(f) == {f[x] : x \in DOMAIN f}

\* ------------------------------------------------------------- shuffle
Swap(array, i, j) == [array EXCEPT ![i] = array[j], ![j] = array[i]]

\* Fisher-Yates from position i down: every outcome of the draws j in 1..i
RECURSIVE FisherYates(_, _)
FisherYates(array, i) ==
    IF i <= 1 THEN {array}
    ELSE UNION {FisherYates(Swap(array, i, j), i - 1) : j \in 1..i}

shuffle(array) == FisherYates(array, Len(array))

\* ------------------------------------------------------------- buildPools
\* sub.videos cleaned: trimmed, empty strings dropped; a non-array counts as []
RECURSIVE CleanLinks(_)
CleanLinks(videos) ==
    IF videos = <<>> THEN <<>>
    ELSE IF Trim(Head(videos)) = <<>> THEN CleanLinks(Tail(videos))
         ELSE <<Trim(Head(videos))>> \o CleanLinks(Tail(videos))

Cleaned(sub) == IF sub.videosIsArray THEN CleanLinks(sub.videos) ELSE <<>>

\* faulty variant: buildPools without `if (!name) continue`
KeptEmptyName(sub) == Cleaned(sub) # <<>>

\* a submission is skipped when its trimmed name or its cleaned list is empty
Kept(sub) == Trim(sub.name) # <<>> /\ Cleaned(sub) # <<>>

\* keys of the Map in insertion order
RECURSIVE PoolKeys(_, _)
PoolKeys(subs, seen) ==
    IF subs = <<>> THEN <<>>
    ELSE LET name == Trim(Head(subs).name) IN
         IF Kept(Head(subs)) /\ name \notin seen
         THEN <<name>> \o PoolKeys(Tail(subs), seen \cup {name})
         ELSE PoolKeys(Tail(subs), seen)

\* the links concatenated under one name, in submission order
RECURSIVE LinksOf(_, _)
LinksOf(subs, name) ==
    IF subs = <<>> THEN <<>>
    ELSE (IF Kept(Head(subs)) /\ Trim(Head(subs).name) = name
          THEN Cleaned(Head(subs)) ELSE <<>>) \o LinksOf(Tail(subs), name)

\* the loop that shuffles each queue on its own: every map it can leave
RECURSIVE ShuffleEach(_, _)
ShuffleEach(keys, subs) ==
    IF keys = <<>> THEN {[n \in {} |-> <<>>]}
    ELSE {(Head(keys) :> q) @@ rest :
            q \in shuffle(LinksOf(subs, Head(keys))), rest \in ShuffleEach(Tail(keys), subs)}

\* every pool buildPools can return
buildPools(subs) == ShuffleEach(PoolKeys(subs, {}), subs)

countTotalLinks(p) ==
    LET RECURSIVE Total(_)
        Total(S) == IF S = {} THEN 0
                    ELSE LET n == CHOOSE x \in S : TRUE IN Len(p[n]) + Total(S \ {n})
    IN Total(DOMAIN p)

\* faulty variant: two links leave the queue for one slot
ShiftDropsTwo(links) == IF Len(links) >= 2 THEN Tail(Tail(links)) ELSE <<>>

\* faulty variant: Array.prototype.shift that leaves the head in place
ShiftKeepsHead(links) == links

\* what links.shift() leaves in the queue
Shift(links) == Tail(links)

getRequiredDays(cli, env) ==
    IF cli # {} THEN CHOOSE n \in cli : TRUE
    ELSE IF env # {} THEN CHOOSE n \in env : TRUE
    ELSE DEFAULT_DAYS

REQUIRED_DAYS == getRequiredDays(cliDays, envDays)
REQUIRED_LINKS == REQUIRED_DAYS * LINKS_PER_DAY

\* faulty variant: the total-links test off by one
EnoughLinksOffByOne(p) == ~(countTotalLinks(p) < REQUIRED_LINKS - 1)

\* the test `totalLinks < REQUIRED_LINKS` does not throw
EnoughLinks(p) == ~(countTotalLinks(p) < REQUIRED_LINKS)

\* ------------------------------------------------------------- getNextSubmitter
\* faulty variant: the filter forgets the submitters already chosen that day
CandidatesNoExclusion(excluded) ==
    {s \in Range(submitters) : Len(pool[s]) > 0}

\* candidates: not excluded, queue not empty
Candidates(excluded) ==
    {s \in Range(submitters) : s \notin excluded /\ Len(pool[s]) > 0}

\* faulty variant: no ordering by usedCount: any candidate comes first
getNextSubmitterUnsorted(excluded) == Candidates(excluded)

\* faulty variant: the comparator is reversed (cb - ca), most used first
getNextSubmitterMostUsed(excluded) ==
    {s \in Candidates(excluded) :
        \A t \in Candidates(excluded) : usedCount[s] >= usedCount[t]}

\* The comparator orders by usedCount and answers at random between equal counts,
\* so candidates[0] is any candidate of minimum usedCount; {} stands for null.
getNextSubmitter(excluded) ==
    {s \in Candidates(excluded) :
        \A t \in Candidates(excluded) : usedCount[s] <= usedCount[t]}

\* ------------------------------------------------------------- inputs
Sub(name, isArray, videos) == [name |-> name, videosIsArray |-> isArray, videos |-> videos]

\* what the submissions of the default specification are drawn from
SubmissionChoices ==
    { Sub(<<"A">>, TRUE, << <<"u1">>, <<"u2">> >>),
      Sub(<<WS, "A", WS>>, TRUE, << <<WS>>, <<WS, "u3">>, <<>> >>),
      Sub(<<"B">>, TRUE, << <<"u1">>, <<"u1">> >>),
      Sub(<<"C">>, TRUE, << <<"u2", WS>>, <<"u2">> >>),
      Sub(<<"a">>, TRUE, << <<"u3">> >>),
      Sub(<<WS>>, TRUE, << <<"u1">> >>),
      Sub(<<"B">>, FALSE, <<>>) }

\* the sequences of at most n different elements of S
SeqsUpTo(S, n) ==
    UNION {{q \in [1..k -> S] : \A i, j \in 1..k : i # j => q[i] # q[j]} : k \in 0..n}

NoFile == [exists |-> FALSE, data |-> [d \in {} |-> <<>>]]

Slot(url, name) == [url |-> url, submitterName |-> name]

\* a calendar.json left by an earlier run
OldCalendar ==
    [exists |-> TRUE,
     data |-> [d \in {1} |-> <<Slot(<<"old1">>, <<"X">>), Slot(<<"old2">>, <<"Y">>),
                               Slot(<<"old3">>, <<"Z">>)>>]]

\* <<--days=, DAYS>> as parsed
DaysInputs == {<<{}, {}>>, <<{}, {1}>>, <<{MaxDays}, {1}>>, <<{0}, {}>>}

EmptyMap == [n \in {} |-> <<>>]

\* the two callers of sendDailySms: the cron callback and the start-up check
Runs == {"cron", "startup"}

NotInvoked == [pc |-> "idle", sawSent |-> FALSE, index |-> 0, results |-> <<>>,
               outcome |-> "none"]

\* no invocation of sendDailySms, nothing configured
IdleSms ==
    /\ smsLog = <<>>
    /\ twilioConfigured = FALSE
    /\ phoneNumbers = <<>>
    /\ startHour = 0
    /\ run = [r \in Runs |-> NotInvoked]
    /\ delivered = <<>>

IdleServer ==
    /\ calendarData = [exists |-> FALSE, valid |-> FALSE, data |-> EmptyMap]
    /\ currentMonth = 0
    /\ today = 1
    /\ response = [status |-> "none", body |-> EmptyMap]

RunStart ==
    /\ pc = "start"
    /\ error = ""
    /\ submitters = <<>>
    /\ pool = EmptyMap
    /\ usedCount = EmptyMap
    /\ calendar = EmptyMap
    /\ day = 0
    /\ dayAssignments = <<>>
    /\ chosenSubmitters = {}
    /\ threeLive = TRUE
    /\ allLive = TRUE

Init ==
    /\ \/ /\ placeholderFlag = FALSE
          /\ submissions \in
                {[isArray |-> FALSE, items |-> <<>>]} \cup
                {[isArray |-> TRUE, items |-> s] : s \in SeqsUpTo(SubmissionChoices, MaxSubs)}
          /\ \E d \in DaysInputs : cliDays = d[1] /\ envDays = d[2]
       \/ /\ placeholderFlag = TRUE
          /\ submissions \in
                {[isArray |-> FALSE, items |-> <<>>], [isArray |-> TRUE, items |-> <<>>]}
          /\ cliDays \in {{0}, {1}}
          /\ envDays = {}
    /\ calendarFile \in {NoFile, OldCalendar}
    /\ RunStart
    /\ IdleServer
    /\ IdleSms

\* ------------------------------------------------------------- main
Fail(msg) ==
    /\ pc' = "failed"
    /\ error' = msg

\* main: submissions.json is missing or not an array
InvalidSubmissions ==
    /\ pc = "start"
    /\ ~submissions.isArray
    /\ Fail("submissions.json missing or invalid (expected array)")
    /\ UNCHANGED <<submissions, cliDays, envDays, placeholderFlag, submitters, pool,
                   usedCount, calendar, day, dayAssignments, chosenSubmitters,
                   calendarFile, threeLive, allLive, srvVars, smsVars>>

Services == {"youtube", "youtu.be", "spotify", "deezer", "soundcloud", "bandcamp"}

PlaceholderName(i) == <<"Placeholder", WS, i>>

PlaceholderSubmissions ==
    [isArray |-> TRUE,
     items |-> [i \in 1..NUM_BANGERS |-> Sub(<<"Placeholder", WS, "User", WS, i>>, TRUE, <<>>)]]

\* main with --placeholders: submissions.json is overwritten and every day gets
\* LINKS_PER_DAY generated urls under the names Placeholder 1..3
GeneratePlaceholders ==
    /\ pc = "start"
    /\ submissions.isArray
    /\ placeholderFlag
    /\ submissions' = PlaceholderSubmissions
    /\ \E urls \in [1..REQUIRED_DAYS -> [1..LINKS_PER_DAY -> Services]] :
          calendar' = [d \in 1..REQUIRED_DAYS |->
                          [i \in 1..LINKS_PER_DAY |-> Slot(<<urls[d][i]>>, PlaceholderName(i))]]
    /\ pc' = "write"
    /\ UNCHANGED <<cliDays, envDays, placeholderFlag, error, submitters, pool, usedCount,
                   day, dayAssignments, chosenSubmitters, calendarFile, threeLive,
                   allLive, srvVars, smsVars>>

\* ------------------------------------------------------------- generateCalendar
Built(p) ==
    /\ pool' = p
    /\ submitters' = PoolKeys(submissions.items, {})

EnterGenerate ==
    /\ pc = "start"
    /\ submissions.isArray
    /\ ~placeholderFlag

\* fewer than 3 keys in the pool
FailSubmitters ==
    /\ EnterGenerate
    /\ \E p \in buildPools(submissions.items) :
          /\ Cardinality(DOMAIN p) < 3
    /\ Fail("Need at least 3 submitters to fill each day with unique people")
    /\ UNCHANGED <<submissions, cliDays, envDays, placeholderFlag, submitters, pool, usedCount, calendar, day,
                   dayAssignments, chosenSubmitters, calendarFile, threeLive, allLive,
                   srvVars, smsVars>>

\* enough submitters, too few links
FailLinks ==
    /\ EnterGenerate
    /\ \E p \in buildPools(submissions.items) :
          /\ Cardinality(DOMAIN p) >= 3
          /\ ~EnoughLinks(p)
    /\ Fail("Not enough total links")
    /\ UNCHANGED <<submissions, cliDays, envDays, placeholderFlag, submitters, pool, usedCount, calendar, day,
                   dayAssignments, chosenSubmitters, calendarFile, threeLive, allLive,
                   srvVars, smsVars>>

\* both checks pass: usedCount is zeroed and the day loop starts
BeginAllocation ==
    /\ EnterGenerate
    /\ \E p \in buildPools(submissions.items) :
          /\ Cardinality(DOMAIN p) >= 3
          /\ EnoughLinks(p)
          /\ Built(p)
          /\ usedCount' = [s \in DOMAIN p |-> 0]
    /\ calendar' = EmptyMap
    /\ day' = 1
    /\ pc' = IF 1 <= REQUIRED_DAYS THEN "alloc" ELSE "write"
    /\ UNCHANGED <<submissions, cliDays, envDays, placeholderFlag, error, dayAssignments,
                   chosenSubmitters, calendarFile, threeLive, allLive, srvVars, smsVars>>

Live == {s \in Range(submitters) : Len(pool[s]) > 0}

Observe ==
    /\ threeLive' = (threeLive /\ Cardinality(Live) >= 3)
    /\ allLive' = (allLive /\ Live = Range(submitters))

\* one pass of the slot loop that finds a submitter; the pass that fills the day
\* also stores it and moves on to the next day
AssignSlot ==
    /\ pc = "alloc"
    /\ \E submitter \in getNextSubmitter(chosenSubmitters) :
          LET url == Head(pool[submitter])
              assignments == Append(dayAssignments, Slot(url, submitter))
          IN /\ pool' = [pool EXCEPT ![submitter] = Shift(@)]
             /\ usedCount' = [usedCount EXCEPT ![submitter] = @ + 1]
             /\ IF Len(assignments) < LINKS_PER_DAY
                THEN /\ dayAssignments' = assignments
                     /\ chosenSubmitters' = chosenSubmitters \cup {submitter}
                     /\ UNCHANGED <<calendar, day, pc>>
                ELSE /\ calendar' = (day :> assignments) @@ calendar
                     /\ day' = day + 1
                     /\ dayAssignments' = <<>>
                     /\ chosenSubmitters' = {}
                     /\ pc' = IF day + 1 <= REQUIRED_DAYS THEN "alloc" ELSE "write"
    /\ Observe
    /\ UNCHANGED <<submissions, cliDays, envDays, placeholderFlag, error, submitters,
                   calendarFile, srvVars, smsVars>>

\* faulty variant: the catch block persists what was allocated so far
FailDayPersistsPartial ==
    /\ pc = "alloc"
    /\ getNextSubmitter(chosenSubmitters) = {}
    /\ pc' = "failed"
    /\ error' = "Could not find enough distinct submitters for day"
    /\ calendarFile' = [exists |-> TRUE, data |-> calendar]
    /\ threeLive' = threeLive
    /\ allLive' = allLive
    /\ UNCHANGED <<submissions, cliDays, envDays, placeholderFlag, submitters, pool,
                   usedCount, calendar, day, dayAssignments, chosenSubmitters, srvVars, smsVars>>

\* faulty variant: a slot nobody can fill ends the day instead of throwing
FailDayGivesUpDay ==
    /\ pc = "alloc"
    /\ getNextSubmitter(chosenSubmitters) = {}
    /\ calendar' = (day :> dayAssignments) @@ calendar
    /\ day' = day + 1
    /\ dayAssignments' = <<>>
    /\ chosenSubmitters' = {}
    /\ pc' = IF day + 1 <= REQUIRED_DAYS THEN "alloc" ELSE "write"
    /\ Observe
    /\ UNCHANGED <<submissions, cliDays, envDays, placeholderFlag, error, submitters,
                   pool, usedCount, calendarFile, srvVars, smsVars>>

\* getNextSubmitter returned null
FailDay ==
    /\ pc = "alloc"
    /\ getNextSubmitter(chosenSubmitters) = {}
    /\ Fail("Could not find enough distinct submitters for day")
    /\ Observe
    /\ UNCHANGED <<submissions, cliDays, envDays, placeholderFlag, submitters, pool,
                   usedCount, calendar, day, dayAssignments, chosenSubmitters,
                   calendarFile, srvVars, smsVars>>

\* main: fs.writeFileSync(calendarPath, ...)
WriteCalendar ==
    /\ pc = "write"
    /\ calendarFile' = [exists |-> TRUE, data |-> calendar]
    /\ pc' = "done"
    /\ UNCHANGED <<submissions, cliDays, envDays, placeholderFlag, error, submitters, pool,
                   usedCount, calendar, day, dayAssignments, chosenSubmitters, threeLive,
                   allLive, srvVars, smsVars>>

Next ==
    \/ InvalidSubmissions
    \/ GeneratePlaceholders
    \/ FailSubmitters
    \/ FailLinks
    \/ BeginAllocation
    \/ AssignSlot
    \/ FailDay
    \/ WriteCalendar

\* one run of generate-calendar.js on the files of the data directory
Spec == Init /\ [][Next]_vars

\* ------------------------------------------------------------- balance inputs
Copies(n, x) == [i \in 1..n |-> x]

BalanceNames == <<"A", "B", "C", "D">>

\* four submitters, each with 0..MaxLinks links; a run without --placeholders
InitBalance ==
    /\ placeholderFlag = FALSE
    /\ \E counts \in [1..Len(BalanceNames) -> 0..MaxLinks] :
          submissions = [isArray |-> TRUE,
                         items |-> [i \in 1..Len(BalanceNames) |->
                                      Sub(<<BalanceNames[i]>>, TRUE, Copies(counts[i], <<"u">>))]]
    /\ cliDays \in {{n} : n \in 1..MaxBalanceDays}
    /\ envDays = {}
    /\ calendarFile = NoFile
    /\ RunStart
    /\ IdleServer
    /\ IdleSms

NextBalance ==
    \/ FailSubmitters
    \/ FailLinks
    \/ BeginAllocation
    \/ AssignSlot
    \/ FailDay
    \/ WriteCalendar

SpecBalance == InitBalance /\ [][NextBalance]_vars

\* ------------------------------------------------------------- claims: the allocator
NeedSubmitters == "Need at least 3 submitters to fill each day with unique people"
NotEnoughLinks == "Not enough total links"
DayNotFilled == "Could not find enough distinct submitters for day"

\* generateCalendar has returned its schedule
Returned == ~placeholderFlag /\ pc \in {"write", "done"}

\* generateCalendar was entered and has thrown or got past its two checks
Entered == ~placeholderFlag /\ submissions.isArray /\ pc # "start"

Items == submissions.items

\* positions <<i, j>> of the non-empty links submitted under a non-empty name
LinkPositions ==
    {ij \in UNION {{<<i, j>> : j \in 1..Len(Items[i].videos)} : i \in 1..Len(Items)} :
        /\ Items[ij[1]].videosIsArray
        /\ Trim(Items[ij[1]].name) # <<>>
        /\ Trim(Items[ij[1]].videos[ij[2]]) # <<>>}

\* how often link l was submitted under name n
Submitted(n, l) ==
    Cardinality({ij \in LinkPositions :
        Trim(Items[ij[1]].name) = n /\ Trim(Items[ij[1]].videos[ij[2]]) = l})

Owners == {Trim(Items[ij[1]].name) : ij \in LinkPositions}

TotalSubmitted == Cardinality(LinkPositions)

\* positions <<d, i>> of the slots of the schedule
SlotPositions == UNION {{<<d, i>> : i \in 1..Len(calendar[d])} : d \in DOMAIN calendar}

SlotAt(di) == calendar[di[1]][di[2]]

Assigned(n, l) == Cardinality({di \in SlotPositions : SlotAt(di) = Slot(l, n)})

SetMax(S) == CHOOSE x \in S : \A y \in S : y <= x
SetMin(S) == CHOOSE x \in S : \A y \in S : x <= y

\* C1: a schedule returned by generateCalendar has an entry for every day
\* 1..requiredDays, each of exactly 3 slots with pairwise distinct submitter names
C1_ThreeDistinctPerDay ==
    Returned =>
        /\ DOMAIN calendar = 1..REQUIRED_DAYS
        /\ \A d \in DOMAIN calendar :
              /\ Len(calendar[d]) = 3
              /\ \A i, j \in 1..Len(calendar[d]) :
                    i # j => calendar[d][i].submitterName # calendar[d][j].submitterName

\* a two-day schedule in which a name submitted with and without surrounding
\* blanks fills one slot per day
C1_Witness ==
    /\ Returned
    /\ REQUIRED_DAYS = 2
    /\ \E i, j \in 1..Len(Items) :
          /\ Items[i].name # Items[j].name
          /\ Trim(Items[i].name) = Trim(Items[j].name)
          /\ \A d \in 1..2 : \E k \in 1..3 : calendar[d][k].submitterName = Trim(Items[i].name)

\* C2: every slot carries a link submitted under its submitter's name, and no
\* submitted link occurrence fills two slots: per name and link, the slots do not
\* outnumber the submissions of that link under that name
C2_LinksFromOwnPool ==
    ~placeholderFlag =>
        \A di \in SlotPositions :
            /\ Submitted(SlotAt(di).submitterName, SlotAt(di).url) >= 1
            /\ Assigned(SlotAt(di).submitterName, SlotAt(di).url)
                  <= Submitted(SlotAt(di).submitterName, SlotAt(di).url)

\* a returned schedule in which one submitter's two different links and another's
\* twice-submitted link are all used
C2_Witness ==
    /\ Returned
    /\ \E n \in Owners : \E l1, l2 \in {SlotAt(di).url : di \in SlotPositions} :
          l1 # l2 /\ Assigned(n, l1) = 1 /\ Assigned(n, l2) = 1
    /\ \E n \in Owners : \E l \in {SlotAt(di).url : di \in SlotPositions} :
          Assigned(n, l) = 2

UsedCounts == {usedCount[s] : s \in DOMAIN usedCount}

Spread == IF UsedCounts = {} THEN 0 ELSE SetMax(UsedCounts) - SetMin(UsedCounts)

\* C3 as stated: at completion, if at least 3 submitters had a non-empty queue at
\* every slot, the largest and smallest usage counts differ by at most 1
C3_Original == (Returned /\ threeLive) => Spread <= 1

\* C3 amended: at completion, if every submitter had a non-empty queue at every
\* slot, the largest and smallest usage counts differ by at most 1
C3_BalancedWhileNoneExhausted == (Returned /\ allLive) => Spread <= 1

\* four submitters, none ever exhausted, three days allocated, counts not all equal
C3_Witness ==
    /\ Returned
    /\ allLive
    /\ REQUIRED_DAYS = 3
    /\ Cardinality(DOMAIN usedCount) = 4
    /\ Spread = 1

\* C4 as stated: too few links in total always ends in the not-enough-links error,
\* also for 3 submissions holding 1 link in total with requiredDays = 1
C4_Original ==
    (Entered /\ TotalSubmitted < REQUIRED_DAYS * 3) =>
        (pc = "failed" /\ error = NotEnoughLinks)

\* C4 amended: too few links in total always fails the run: with the
\* at-least-3-submitters error when fewer than 3 names own a link (so for 3
\* submissions holding 1 link in total), with the not-enough-links error otherwise
C4_TooFewLinksFails ==
    (Entered /\ TotalSubmitted < REQUIRED_DAYS * 3) =>
        /\ pc = "failed"
        /\ error = IF Cardinality(Owners) < 3 THEN NeedSubmitters ELSE NotEnoughLinks

\* the example of the claim: 3 submissions holding 1 link in total, requiredDays = 1;
\* the run has failed
C4_Witness ==
    /\ Entered
    /\ Len(Items) = 3
    /\ TotalSubmitted = 1
    /\ REQUIRED_DAYS = 1
    /\ pc = "failed"

\* C5: fewer than 3 distinct names owning a non-empty link fails with the
\* at-least-3-submitters error before any slot is assigned
C5_TooFewSubmittersFails ==
    (Entered /\ Cardinality(Owners) < 3) =>
        /\ pc = "failed"
        /\ error = NeedSubmitters
        /\ calendar = EmptyMap
        /\ dayAssignments = <<>>
        /\ usedCount = EmptyMap

\* three submissions with links, one under a blank name and two under one name:
\* the run has failed
C5_Witness ==
    /\ Entered
    /\ pc = "failed"
    /\ error = NeedSubmitters
    /\ Cardinality(Owners) = 2
    /\ \E i \in 1..Len(Items) : Trim(Items[i].name) = <<>> /\ Cleaned(Items[i]) # <<>>
    /\ \E i, j \in 1..Len(Items) :
          i # j /\ Items[i].name # Items[j].name /\ Trim(Items[i].name) = Trim(Items[j].name)
             /\ Trim(Items[i].name) \in Owners

\* a schedule with LINKS_PER_DAY slots for every day 1..requiredDays
Complete(data) ==
    /\ DOMAIN data = 1..REQUIRED_DAYS
    /\ \A d \in DOMAIN data : Len(data[d]) = LINKS_PER_DAY

\* C6: a run that fails leaves calendar.json as it was, and calendar.json only
\* ever changes in the last step of a run, to a complete schedule
C6_AllOrNothing ==
    /\ [](pc = "failed" => calendarFile \in {NoFile, OldCalendar})
    /\ [][calendarFile' # calendarFile =>
            (pc' = "done" /\ calendarFile'.exists /\ Complete(calendarFile'.data))]_vars

\* a day could not be filled after an earlier day was: the earlier calendar.json
\* is still there
C6_Witness ==
    /\ pc = "failed"
    /\ error = DayNotFilled
    /\ calendar # EmptyMap
    /\ calendarFile = OldCalendar

\* no submitter is both unchosen for the current day and left with a link
NoCandidate ==
    ~\E s \in DOMAIN pool : s \notin chosenSubmitters /\ pool[s] # <<>>

\* C12: every slot assignment picks (raises the usage count of) a submitter that
\* is not yet chosen for the day, has a non-empty queue, and has the least usage
\* count among the submitters that are unchosen and have a non-empty queue
C12_ChosenIsLeastUsedCandidate ==
    [][pc = "alloc" =>
          \A s \in DOMAIN usedCount :
              usedCount'[s] # usedCount[s] =>
                  /\ s \notin chosenSubmitters
                  /\ pool[s] # <<>>
                  /\ pool'[s] = Tail(pool[s])
                  /\ \A t \in DOMAIN usedCount :
                        (t \notin chosenSubmitters /\ pool[t] # <<>>)
                            => usedCount[s] <= usedCount[t]]_vars

\* a slot just went to a submitter although an exhausted one had been used less
C12_Witness ==
    /\ pc = "alloc"
    /\ dayAssignments # <<>>
    /\ LET s == dayAssignments[Len(dayAssignments)].submitterName
       IN /\ s \in chosenSubmitters
          /\ \E t \in DOMAIN usedCount : pool[t] = <<>> /\ usedCount[t] < usedCount[s] - 1

\* C13: a step ends the run with the day-fill error exactly when it is taken at a
\* slot for which no submitter is both unchosen for the day and left with a link
C13_DayFillErrorIffNoCandidate ==
    [][(pc' = "failed" /\ error' = DayNotFilled) <=> (pc = "alloc" /\ NoCandidate)]_vars

\* the day-fill error after both upfront checks passed: 3 or more submitters and
\* no fewer links than requiredDays * 3
C13_Witness ==
    /\ pc = "failed"
    /\ error = DayNotFilled
    /\ NoCandidate
    /\ Cardinality(Owners) >= 3
    /\ TotalSubmitted >= REQUIRED_DAYS * 3

\* number of links submitted under the name n
OwnedLinks(positions, n) ==
    Cardinality({ij \in positions : Trim(Items[ij[1]].name) = n})

\* the submitters owning at least requiredDays links
Rich ==
    LET positions == LinkPositions
    IN {n \in {Trim(Items[ij[1]].name) : ij \in positions} :
           OwnedLinks(positions, n) >= REQUIRED_DAYS}

\* allocation has not failed, finds a submitter for the slot it is at, and
\* returns a full schedule
Completes ==
    /\ pc \in {"alloc", "write", "done"}
    /\ pc = "alloc" => getNextSubmitter(chosenSubmitters) # {}
    /\ Returned => Complete(calendar)

\* every day of the schedule has exactly one slot of each submitter in S
OneEachPerDay(S) ==
    \A d \in DOMAIN calendar : \A n \in S :
        Cardinality({i \in 1..Len(calendar[d]) : calendar[d][i].submitterName = n}) = 1

\* C14 as stated: with 3 or more submitters owning requiredDays links each the
\* allocation completes, and when exactly 3 submitters own that many, every day
\* has one link of each of them, whoever else submitted
C14_Original ==
    LET rich == Rich
    IN (Entered /\ Cardinality(rich) >= 3) =>
           /\ Completes
           /\ Cardinality(rich) = 3 => OneEachPerDay(rich)

\* C14 amended: with 3 or more submitters owning requiredDays links each the
\* allocation completes, and when these are exactly 3 and nobody else submitted,
\* every day has one link of each of them
C14_RichSubmittersComplete ==
    LET rich == Rich
    IN (Entered /\ Cardinality(rich) >= 3) =>
           /\ Completes
           /\ (Cardinality(rich) = 3 /\ Owners = rich) => OneEachPerDay(rich)

\* three submitters with 3 links each and nobody else, three days allocated
C14_Witness ==
    /\ Returned
    /\ REQUIRED_DAYS = 3
    /\ Cardinality(Rich) = 3
    /\ Owners = Rich
    /\ DOMAIN calendar = 1..3
    /\ OneEachPerDay(Rich)

\* C15: after the checks, whenever every submitter's queue is non-empty, the
\* usage counts of any two submitters differ by at most 1
C15_BalancedWhileQueuesNonEmpty ==
    (pc \in {"alloc", "write", "done"} /\ \A s \in DOMAIN pool : pool[s] # <<>>) =>
        \A s, t \in DOMAIN usedCount :
            usedCount[s] - usedCount[t] <= 1 /\ usedCount[t] - usedCount[s] <= 1

\* four submitters in the second day, every queue non-empty, two of them chosen
\* for the day and excluded, one at 2 uses and one at 1 like the two still open
C15_Witness ==
    /\ pc = "alloc"
    /\ day = 2
    /\ Cardinality(chosenSubmitters) = 2
    /\ Cardinality(DOMAIN usedCount) = 4
    /\ \A s \in DOMAIN pool : pool[s] # <<>>
    /\ \E s \in chosenSubmitters : usedCount[s] = 2
    /\ \E s \in chosenSubmitters : usedCount[s] = 1
    /\ \A s \in DOMAIN usedCount \ chosenSubmitters : usedCount[s] = 1

\* ------------------------------------------------------------- server: GET /api/calendar
\* A value of calendar.json under a day key is [kind, items]: kind is the JSON
\* type ("null", "false", "object", "array", ...), items the elements of an array.
\* An element is [kind, urlIsString, url, submitterName]: kind "record" for an
\* object, url printed as text whatever its type.
Item(kind, urlIsString, url, name) ==
    [kind |-> kind, urlIsString |-> urlIsString, url |-> url, submitterName |-> name]

Entry(kind, items) == [kind |-> kind, items |-> items]

GoodDay ==
    Entry("array", <<Item("record", TRUE, "u1", "A"), Item("record", TRUE, "u2", "B"),
                     Item("record", TRUE, "u3", "C")>>)

\* a day whose slots carry a field the generator never writes
ExtraDay ==
    Entry("array", <<Item("record", TRUE, "u5", "A") @@ [addedAt |-> "t1"],
                     Item("record", TRUE, "u6", "B") @@ [addedAt |-> "t2"]>>)

\* what a day of a calendar.json found by the server is drawn from
DayEntries ==
    { GoodDay,
      ExtraDay,
      Entry("array", <<>>),
      Entry("array", <<Item("record", TRUE, "u4", "D"), Item("null", FALSE, "", "")>>),
      Entry("array", <<Item("record", FALSE, "42", "E")>>),
      Entry("object", <<>>),
      Entry("string", <<>>),
      Entry("null", <<>>),
      Entry("false", <<>>) }

CalendarFiles ==
    UNION {[keys -> DayEntries] : keys \in SUBSET (1..MaxDayKey)}

\* faulty variant: the url is copied without the typeof tests
sanitizeItemUnchecked(item) == [url |-> item.url]

\* the callback of dayData.map in sanitizeDayData
sanitizeItem(item) ==
    [url |-> IF item.kind \in {"record", "array"} /\ item.urlIsString THEN item.url ELSE ""]

\* faulty variant: the list is emitted as it was read, nothing stripped
sanitizeDayDataRaw(dayData) ==
    IF dayData.kind # "array" THEN <<>> ELSE dayData.items

sanitizeDayData(dayData) ==
    IF dayData.kind # "array" THEN <<>>
    ELSE [i \in 1..Len(dayData.items) |-> sanitizeItem(dayData.items[i])]

\* !dayData: the key is absent or its value is null, false, 0 or ""
Falsy(data, d) == d \notin DOMAIN data \/ data[d].kind \in {"null", "false", "zero", "empty"}

REDACTED == <<[url |-> "REDACTED"]>>

\* faulty variant: the gate opens a day one day late
isAccessibleDayLate(d, month, dayOfMonth) ==
    IF month > targetMonth THEN TRUE
    ELSE IF month = targetMonth THEN d < dayOfMonth
    ELSE FALSE

isAccessible(d, month, dayOfMonth) ==
    IF month > targetMonth THEN TRUE
    ELSE IF month = targetMonth THEN d <= dayOfMonth
    ELSE FALSE

\* dayKeys.length ? Math.max(...dayKeys) : 24
maxDayOf(data) == IF DOMAIN data = {} THEN DefaultMaxDay ELSE SetMax(DOMAIN data)

\* the object `filtered`
Filtered(data, month, dayOfMonth) ==
    [d \in 1..maxDayOf(data) |->
        IF Falsy(data, d) THEN REDACTED
        ELSE IF isAccessible(d, month, dayOfMonth) THEN sanitizeDayData(data[d])
        ELSE REDACTED]

IdleGenerator ==
    /\ placeholderFlag = FALSE
    /\ submissions = [isArray |-> TRUE, items |-> <<>>]
    /\ cliDays = {}
    /\ envDays = {}
    /\ calendarFile = NoFile
    /\ RunStart

InitGate ==
    /\ calendarData \in
          {[exists |-> FALSE, valid |-> FALSE, data |-> EmptyMap],
           [exists |-> TRUE, valid |-> FALSE, data |-> EmptyMap]} \cup
          {[exists |-> TRUE, valid |-> TRUE, data |-> c] : c \in CalendarFiles}
    /\ currentMonth = 0
    /\ today = 1
    /\ response = [status |-> "none", body |-> EmptyMap]
    /\ IdleGenerator
    /\ IdleSms

\* calendar.json does not exist
CalendarNotFound ==
    /\ ~calendarData.exists
    /\ response' = [status |-> "404", body |-> EmptyMap]
    /\ UNCHANGED <<calendarData, currentMonth, today, genVars, smsVars>>

\* reading or parsing calendar.json throws
CalendarUnreadable ==
    /\ calendarData.exists
    /\ ~calendarData.valid
    /\ response' = [status |-> "500", body |-> EmptyMap]
    /\ UNCHANGED <<calendarData, currentMonth, today, genVars, smsVars>>

\* the request is answered with the filtered calendar, at whatever the clock says
GetApiCalendar ==
    /\ calendarData.exists
    /\ calendarData.valid
    /\ \E month \in 0..11, dayOfMonth \in 1..MaxToday :
          /\ currentMonth' = month
          /\ today' = dayOfMonth
          /\ response' = [status |-> "200",
                          body |-> Filtered(calendarData.data, month, dayOfMonth)]
    /\ UNCHANGED <<calendarData, genVars, smsVars>>

NextGate ==
    \/ CalendarNotFound
    \/ CalendarUnreadable
    \/ GetApiCalendar

SpecGate == InitGate /\ [][NextGate]_vars

\* ------------------------------------------------------------- claims: the day gate
Data == calendarData.data

Answered == response.status = "200"

\* a list of records whose url is a string
WellFormed(e) ==
    /\ e.kind = "array"
    /\ \A i \in 1..Len(e.items) : e.items[i].kind = "record" /\ e.items[i].urlIsString

Missing(d) == d \notin DOMAIN Data

Malformed(d) == d \in DOMAIN Data /\ ~WellFormed(Data[d])

\* the month and day-of-month rule of the claim
Unlocked(d) ==
    \/ currentMonth > targetMonth
    \/ currentMonth = targetMonth /\ d <= today

Urls(e) == [i \in 1..Len(e.items) |-> [url |-> e.items[i].url]]

LastDay == IF DOMAIN Data = {} THEN 24 ELSE SetMax(DOMAIN Data)

\* C8: the response has the days 1..maxDay; a day with a schedule entry that is
\* unlocked by the month/day rule shows the entry's urls, every other day (locked
\* or without entry) shows exactly the redacted sentinel and none of its links
C8_GateByMonthAndDay ==
    Answered =>
        /\ DOMAIN response.body = 1..LastDay
        /\ \A d \in 1..LastDay :
              /\ (~Missing(d) /\ WellFormed(Data[d]) /\ Unlocked(d))
                    => response.body[d] = Urls(Data[d])
              /\ (Missing(d) \/ (WellFormed(Data[d]) /\ ~Unlocked(d)))
                    => /\ response.body[d] = <<[url |-> "REDACTED"]>>
                       /\ Missing(d) \/ \A i \in 1..Len(Data[d].items) :
                             \A k \in 1..Len(response.body[d]) :
                                 response.body[d][k].url # Data[d].items[i].url

\* December the 2nd, three scheduled days: days 1 and 2 shown, day 3 redacted
C8_Witness ==
    /\ Answered
    /\ currentMonth = 11
    /\ today = 2
    /\ DOMAIN Data = 1..3
    /\ \A d \in 1..3 : Data[d] = GoodDay
    /\ response.body[1] = Urls(GoodDay)
    /\ response.body[2] = Urls(GoodDay)
    /\ response.body[3] = <<[url |-> "REDACTED"]>>

\* C9: with targetMonth = 11 no month index 0..11 is after the target month, and
\* in every month but December every day 1..maxDay is the redacted sentinel
C9_OnlyDecemberOpens ==
    /\ currentMonth \in 0..11 /\ ~(currentMonth > targetMonth)
    /\ (Answered /\ currentMonth # 11) =>
          \A d \in 1..LastDay : response.body[d] = <<[url |-> "REDACTED"]>>

\* January the 4th, a scheduled day 1: redacted
C9_Witness ==
    /\ Answered
    /\ currentMonth = 0
    /\ today = 4
    /\ 1 \in DOMAIN Data
    /\ Data[1] = GoodDay
    /\ response.body[1] = <<[url |-> "REDACTED"]>>

Served == calendarData.exists /\ calendarData.valid /\ response.status # "none"

\* C10 as stated: a malformed entry never fails the request and always shows the
\* redacted sentinel
C10_Original ==
    Served =>
        /\ Answered
        /\ \A d \in 1..LastDay : Malformed(d) => response.body[d] = <<[url |-> "REDACTED"]>>

NullLike(e) == e.kind \in {"null", "false", "zero", "empty"}

\* C10 amended: a malformed entry never fails the request; it shows the redacted
\* sentinel when the day is locked or the entry is null, false, 0 or ""; on an
\* unlocked day any other non-list entry shows an empty list and a list shows one
\* item per element, with url "" for every element that is not a record with a
\* string url
C10_MalformedNeverLeaks ==
    Served =>
        /\ Answered
        /\ \A d \in 1..LastDay : Malformed(d) =>
              response.body[d] =
                 IF ~Unlocked(d) \/ NullLike(Data[d]) THEN <<[url |-> "REDACTED"]>>
                 ELSE IF Data[d].kind # "array" THEN <<>>
                 ELSE [i \in 1..Len(Data[d].items) |->
                         [url |-> IF Data[d].items[i].kind = "record"
                                     /\ Data[d].items[i].urlIsString
                                  THEN Data[d].items[i].url ELSE ""]]

\* an unlocked day holding a list with a null element and one holding a bare
\* object: url "" for the element, an empty list for the object
C10_Witness ==
    /\ Answered
    /\ \E d \in DOMAIN Data :
          /\ Unlocked(d)
          /\ Data[d].kind = "array"
          /\ \E i \in 1..Len(Data[d].items) :
                Data[d].items[i].kind = "null" /\ response.body[d][i].url = ""
    /\ \E d \in DOMAIN Data :
          Unlocked(d) /\ Data[d].kind = "object" /\ response.body[d] = <<>>

Today == "today"
Yesterday == "yesterday"

\* the test of dayData.filter in getTodayCalendarEntries
KeptEntry(item) == item.kind = "record" /\ item.url # "" /\ item.url # "REDACTED"

\* getTodayCalendarEntries().entries
getTodayCalendarEntries ==
    IF ~calendarData.exists \/ ~calendarData.valid THEN <<>>
    ELSE IF currentMonth < targetMonth THEN <<>>
    ELSE IF Falsy(calendarData.data, today) THEN <<>>
    ELSE IF calendarData.data[today].kind # "array" THEN <<>>
    ELSE SelectSeq(calendarData.data[today].items, KeptEntry)

hasSentToday == \E i \in 1..Len(smsLog) : smsLog[i] = Today

\* the log after markAsSent()
markAsSent == IF hasSentToday THEN smsLog ELSE Append(smsLog, Today)

\* sendDailySms is called and runs up to its first await or its return
sendDailySms(r) ==
    /\ run[r].pc = "idle"
    /\ r = "startup" => startHour >= CronHour
    /\ IF hasSentToday
       THEN /\ run' = [run EXCEPT ![r] = [@ EXCEPT !.pc = "done", !.sawSent = TRUE,
                                                    !.outcome = "skipped"]]
            /\ UNCHANGED smsLog
       ELSE IF ~twilioConfigured
       THEN /\ run' = [run EXCEPT ![r] = [@ EXCEPT !.pc = "done",
                                                    !.outcome = "unconfigured"]]
            /\ UNCHANGED smsLog
       ELSE IF Len(getTodayCalendarEntries) = 0
       THEN /\ run' = [run EXCEPT ![r] = [@ EXCEPT !.pc = "done", !.outcome = "noEntries"]]
            /\ smsLog' = markAsSent
       ELSE IF Len(phoneNumbers) = 0
       THEN /\ run' = [run EXCEPT ![r] = [@ EXCEPT !.pc = "done", !.outcome = "noPhones"]]
            /\ UNCHANGED smsLog
       ELSE /\ run' = [run EXCEPT ![r] = [@ EXCEPT !.pc = "sending", !.index = 1]]
            /\ UNCHANGED smsLog
    /\ UNCHANGED <<twilioConfigured, phoneNumbers, startHour, delivered, genVars, srvVars>>

\* the awaited client.messages.create settles; the invocation goes on to the next
\* number's await, or past the loop to its return
SendSettles(r) ==
    /\ run[r].pc = "sending"
    /\ \E success \in BOOLEAN :
          LET phoneNumber == phoneNumbers[run[r].index]
              results == Append(run[r].results, success)
              hasSuccess == \E i \in 1..Len(results) : results[i]
          IN /\ delivered' = IF success THEN [delivered EXCEPT ![phoneNumber] = @ + 1]
                                        ELSE delivered
             /\ IF run[r].index < Len(phoneNumbers)
                THEN /\ run' = [run EXCEPT ![r] = [@ EXCEPT !.index = @ + 1,
                                                             !.results = results]]
                     /\ UNCHANGED smsLog
                ELSE /\ run' = [run EXCEPT ![r] =
                                   [@ EXCEPT !.pc = "done", !.results = results,
                                             !.outcome = IF hasSuccess THEN "sent"
                                                         ELSE "allFailed"]]
                     /\ smsLog' = IF hasSuccess THEN markAsSent ELSE smsLog
    /\ UNCHANGED <<twilioConfigured, phoneNumbers, startHour, genVars, srvVars>>

\* data/phone-numbers.txt: 0..MaxPhones numbers
PhoneLists == {[i \in 1..n |-> i] : n \in 0..MaxPhones}

InitSms ==
    /\ calendarData \in
          {[exists |-> FALSE, valid |-> FALSE, data |-> EmptyMap]} \cup
          {[exists |-> TRUE, valid |-> TRUE, data |-> c] : c \in [{1} -> DayEntries]}
    /\ currentMonth \in {targetMonth - 1, targetMonth}
    /\ today \in {1, 2}
    /\ response = [status |-> "none", body |-> EmptyMap]
    /\ IdleGenerator
    /\ smsLog \in {<<>>, <<Yesterday>>}
    /\ twilioConfigured \in BOOLEAN
    /\ phoneNumbers \in PhoneLists
    /\ startHour \in {CronHour - 1, CronHour}
    /\ run = [r \in Runs |-> NotInvoked]
    /\ delivered = [p \in Range(phoneNumbers) |-> 0]

NextSms ==
    \/ \E r \in Runs : sendDailySms(r)
    \/ \E r \in Runs : SendSettles(r)

SpecSms == InitSms /\ [][NextSms]_vars

\* ------------------------------------------------------------- claims: the daily SMS
\* no phone number got the message twice
AtMostOncePerNumber == \A p \in DOMAIN delivered : delivered[p] <= 1

\* the date is in the log only after an invocation had a successful send or found
\* no entries for today
LoggedOnlyAfterSuccess ==
    hasSentToday =>
        \E r \in Runs :
            \/ run[r].outcome = "sent" /\ \E i \in 1..Len(run[r].results) : run[r].results[i]
            \/ run[r].outcome = "noEntries" /\ Len(getTodayCalendarEntries) = 0

\* an invocation that found the date in the log issued no send
SkipsOnceLogged ==
    \A r \in Runs : run[r].sawSent => run[r].index = 0 /\ run[r].results = <<>>

\* C16: whatever the interleaving of the cron invocation and the start-up
\* invocation of one date, no phone number gets the message twice, the date enters
\* the log only after a successful send or when today has no entries, and an
\* invocation made once the date is logged sends nothing
C16_Original ==
    /\ AtMostOncePerNumber
    /\ LoggedOnlyAfterSuccess
    /\ SkipsOnceLogged

====
